---- MODULE Spec2Model ----
(***************************************************************************)
(* The platform-configuration headers of sil-q (h-config.h, h-define.h,   *)
(* h-system.h) as a state machine over the preprocessor's symbol table.   *)
(* A state is the symbol table of one translation unit, the set of system *)
(* headers it has pulled in, and the position of the preprocessor inside  *)
(* the header it is processing.  One action is one group of directives.   *)
(* A translation unit may #include the three headers in any order and any *)
(* number of times.  What the platform's own headers and the command line *)
(* define is the initial symbol table.                                    *)
(***************************************************************************)
EXTENDS Integers, Sequences, FiniteSets

VARIABLES
    sym,        \* object-like and function-like macros: name -> replacement text
    num,        \* numeric macros: name -> <<>> (undefined) or <<value>>
    headers,    \* system headers included so far
    failed,     \* the compilation stopped on a header the toolchain lacks
    pc,         \* position of the preprocessor
    seen,       \* history: repository headers entered at least once
    again,      \* history: the header being processed was entered before
    reincludes, \* history: number of repeated #includes so far
    entrySym,   \* history: sym when the current (or last) header was entered
    num0,       \* history: num at the start of the build
    op,         \* utility macro last expanded ("none" before any)
    abc,        \* operands of ORDERED
    ch,         \* operand of KTRL
    res         \* value of the last expansion

vars == <<sym, num, headers, failed, pc, seen, again, reincludes, entrySym,
          num0, op, abc, ch, res>>

buildVars == <<sym, num, headers, failed, pc, seen, again, reincludes,
               entrySym, num0>>

utilVars == <<op, abc, ch, res>>

\* ------------------------------------------------------------------ bounds

MaxReincludes == 1
MaxPreset == 2
MaxInt == 3
MaxChar == 127

PresetValues == 0..MaxPreset
IntRange == (0 - MaxInt)..MaxInt
Chars == 0..MaxChar

\* ------------------------------------------------------------ symbol table

Undef == "#undef"
Empty == ""
One == "1"

InputSignals == {"_WIN32", "WIN32", "WINDOWS", "_MSC_VER", "HAVE_CONFIG_H",
                 "__linux__", "__GNUC__"}

ConfigSymbols == {"WINDOWS", "SET_UID", "PATH_SEP", "HAVE_USLEEP",
                  "FILE_TYPE_TEXT", "FILE_TYPE_DATA", "FILE_TYPE_SAVE",
                  "FILE_TYPE"}

Guards == {"INCLUDED_H_CONFIG_H", "INCLUDED_H_DEFINE_H", "INCLUDED_H_SYSTEM_H"}

UndefMacros == {"MIN", "MAX", "ABS", "SGN", "ORDERED"}

PlainMacros == {"A2I", "I2A", "D2I", "I2D", "KTRL", "UN_KTRL", "ESCAPE"}

DefineSymbols == {"NULL", "FALLTHROUGH"} \cup UndefMacros \cup PlainMacros

SymNames == InputSignals \cup ConfigSymbols \cup Guards \cup DefineSymbols

FallbackOrder == <<"SEEK_SET", "SEEK_CUR", "SEEK_END",
                   "F_UNLCK", "F_RDLCK", "F_WRLCK">>

Fallbacks == {FallbackOrder[i] : i \in 1..Len(FallbackOrder)}

SeekNames == {"SEEK_SET", "SEEK_CUR", "SEEK_END"}

LockNames == {"F_UNLCK", "F_RDLCK", "F_WRLCK"}

NumNames == Fallbacks \cup {"TRUE", "FALSE"}

Files == {"h-config.h", "h-define.h", "h-system.h"}

Defined(s, n) == s[n] # Undef

Define(s, n, v) == [s EXCEPT ![n] = v]

Undefine(s, n) == [s EXCEPT ![n] = Undef]

NumDefined(t, n) == t[n] # <<>>

NumDefine(t, n, v) == [t EXCEPT ![n] = <<v>>]

NumUndefine(t, n) == [t EXCEPT ![n] = <<>>]

GuardedNever(s, g) == FALSE

Guarded(s, g) == Defined(s, g)

\* --------------------------------------------------------------- h-config.h

ClassifyWindowsClobber(s) ==
    IF Defined(s, "_WIN32") \/ Defined(s, "WIN32")
    THEN Define(s, "WINDOWS", Empty)
    ELSE s

\* #if defined(_WIN32) || defined(WIN32) / #ifndef WINDOWS / #define WINDOWS
ClassifyWindows(s) ==
    IF Defined(s, "_WIN32") \/ Defined(s, "WIN32")
    THEN IF ~Defined(s, "WINDOWS") THEN Define(s, "WINDOWS", Empty) ELSE s
    ELSE s

DeriveSetUidAlways(s) == Define(s, "SET_UID", Empty)

\* #if !defined(WINDOWS) / #define SET_UID
DeriveSetUid(s) ==
    IF ~Defined(s, "WINDOWS") THEN Define(s, "SET_UID", Empty) ELSE s

\* #undef PATH_SEP / #define PATH_SEP "/" / #if defined(WINDOWS) ... "\\"
SelectPathSep(s) ==
    LET d == Define(Undefine(s, "PATH_SEP"), "PATH_SEP", "/")
    IN  IF Defined(d, "WINDOWS")
        THEN Define(Undefine(d, "PATH_SEP"), "PATH_SEP", "\\")
        ELSE d

\* #ifndef FILE_TYPE_TEXT / four #defines
DefaultFileTypes(s) ==
    IF ~Defined(s, "FILE_TYPE_TEXT")
    THEN Define(Define(Define(Define(s, "FILE_TYPE_TEXT", Empty),
                              "FILE_TYPE_DATA", Empty),
                       "FILE_TYPE_SAVE", Empty),
                "FILE_TYPE", Empty)
    ELSE s

\* #if defined(SET_UID) && !defined(HAVE_CONFIG_H) / #define HAVE_USLEEP
GuessUsleep(s) ==
    IF Defined(s, "SET_UID") /\ ~Defined(s, "HAVE_CONFIG_H")
    THEN Define(s, "HAVE_USLEEP", Empty)
    ELSE s

\* #include of a repository header: its include guard, then its first group
Enter(f, guard, first, last) ==
    /\ pc = "idle"
    /\ ~failed
    /\ f \in seen => reincludes < MaxReincludes
    /\ IF Guarded(sym, guard)
       THEN sym' = sym /\ pc' = last
       ELSE sym' = Define(sym, guard, Empty) /\ pc' = first
    /\ seen' = seen \cup {f}
    /\ again' = (f \in seen)
    /\ reincludes' = IF f \in seen THEN reincludes + 1 ELSE reincludes
    /\ entrySym' = sym
    /\ UNCHANGED <<num, headers, failed, num0, utilVars>>

\* the closing #endif of a repository header
Leave(last) ==
    /\ pc = last
    /\ ~failed
    /\ pc' = "idle"
    /\ again' = FALSE
    /\ UNCHANGED <<sym, num, headers, failed, seen, reincludes, entrySym,
                   num0, utilVars>>

\* one group of directives that only rewrites sym
SymStep(here, next, s) ==
    /\ pc = here
    /\ ~failed
    /\ sym' = s
    /\ pc' = next
    /\ UNCHANGED <<num, headers, failed, seen, again, reincludes, entrySym,
                   num0, utilVars>>

EnterConfig ==
    Enter("h-config.h", "INCLUDED_H_CONFIG_H", "cfg_windows", "cfg_endif")

ConfigWindows == SymStep("cfg_windows", "cfg_setuid", ClassifyWindows(sym))

ConfigSetUid == SymStep("cfg_setuid", "cfg_pathsep", DeriveSetUid(sym))

ConfigPathSep == SymStep("cfg_pathsep", "cfg_filetype", SelectPathSep(sym))

ConfigFileType == SymStep("cfg_filetype", "cfg_usleep", DefaultFileTypes(sym))

ConfigUsleep == SymStep("cfg_usleep", "cfg_endif", GuessUsleep(sym))

LeaveConfig == Leave("cfg_endif")

ConfigBody == {"cfg_windows", "cfg_setuid", "cfg_pathsep", "cfg_filetype",
               "cfg_usleep"}

\* --------------------------------------------------------------- h-system.h

BasicHeaders == {"stdio.h", "ctype.h", "errno.h", "stdlib.h"}

PosixHeaders == {"sys/param.h", "sys/file.h", "pwd.h", "unistd.h"}

\* #ifdef SET_UID: sys/types.h, (__linux__: sys/time.h), sys/timeb.h
TypeHeaders(s) ==
    IF Defined(s, "SET_UID")
    THEN {"sys/types.h", "sys/timeb.h"}
         \cup (IF Defined(s, "__linux__") THEN {"sys/time.h"} ELSE {})
    ELSE {}

\* time.h, (WINDOWS: io.h), memory.h, fcntl.h
TimeHeaders(s) ==
    {"time.h", "memory.h", "fcntl.h"}
    \cup (IF Defined(s, "WINDOWS") THEN {"io.h"} ELSE {})

PosixAllowedAlways(s) == TRUE

\* #ifndef _MSC_VER
PosixAllowed(s) == ~Defined(s, "_MSC_VER")

\* #ifndef WINDOWS / #define WINDOWS
DemoteWindows(s) ==
    IF ~Defined(s, "WINDOWS") THEN Define(s, "WINDOWS", Empty) ELSE s

DemoteSetUidAndUsleep(s) == Undefine(Undefine(s, "SET_UID"), "HAVE_USLEEP")

\* #undef SET_UID
DemoteSetUid(s) == Undefine(s, "SET_UID")

\* #include <...> of system headers; the Microsoft toolchain ships none of
\* the POSIX user/process/file-locking headers
IncludeStep(here, next, hs) ==
    /\ pc = here
    /\ ~failed
    /\ headers' = headers \cup hs
    /\ failed' = (Defined(sym, "_MSC_VER") /\ hs \cap PosixHeaders # {})
    /\ pc' = next
    /\ UNCHANGED <<sym, num, seen, again, reincludes, entrySym, num0,
                   utilVars>>

EnterSystem ==
    Enter("h-system.h", "INCLUDED_H_SYSTEM_H", "sys_basic", "sys_endif")

SystemBasic == IncludeStep("sys_basic", "sys_types", BasicHeaders)

SystemTypes == IncludeStep("sys_types", "sys_time", TypeHeaders(sym))

SystemTime == IncludeStep("sys_time", "sys_posix", TimeHeaders(sym))

\* #ifdef SET_UID / #ifndef _MSC_VER ... #else
SystemPosix ==
    IF Defined(sym, "SET_UID")
    THEN IF PosixAllowed(sym)
         THEN IncludeStep("sys_posix", "sys_stat", PosixHeaders)
         ELSE IncludeStep("sys_posix", "sys_demote_windows", {})
    ELSE IncludeStep("sys_posix", "sys_string", {})

SystemDemoteWindows ==
    SymStep("sys_demote_windows", "sys_demote_setuid", DemoteWindows(sym))

SystemDemoteSetUid ==
    SymStep("sys_demote_setuid", "sys_stat", DemoteSetUid(sym))

SystemStat == IncludeStep("sys_stat", "sys_string", {"sys/stat.h"})

SystemString == IncludeStep("sys_string", "sys_endif", {"string.h", "stdarg.h"})

LeaveSystem == Leave("sys_endif")

SystemBody == {"sys_basic", "sys_types", "sys_time", "sys_posix",
               "sys_demote_windows", "sys_demote_setuid", "sys_stat",
               "sys_string"}

\* --------------------------------------------------------------- h-define.h

\* #ifndef NULL / #define NULL ((void*)0)
DefineNullIfAbsent(s) ==
    IF ~Defined(s, "NULL") THEN Define(s, "NULL", "((void*)0)") ELSE s

\* the values h-define.h gives the seek and lock modes
FallbackDefault ==
    [SEEK_SET |-> 0, SEEK_CUR |-> 1, SEEK_END |-> 2,
     F_UNLCK |-> 0, F_RDLCK |-> 1, F_WRLCK |-> 2]

ResolveFallbackForce(t, n) == NumDefine(t, n, FallbackDefault[n])

\* #ifndef n / #define n <default>
ResolveFallback(t, n) ==
    IF ~NumDefined(t, n) THEN NumDefine(t, n, FallbackDefault[n]) ELSE t

\* #undef TRUE / #define TRUE 1 / #undef FALSE / #define FALSE 0
ForceBooleans(t) ==
    NumDefine(NumUndefine(NumDefine(NumUndefine(t, "TRUE"), "TRUE", 1),
                          "FALSE"),
              "FALSE", 0)

\* replacement text of the function-like macros and of ESCAPE
MacroText ==
    [MIN |-> "(((a) > (b)) ? (b) : (a))",
     MAX |-> "(((a) < (b)) ? (b) : (a))",
     ABS |-> "(((a) < 0) ? (-(a)) : (a))",
     SGN |-> "(((a) < 0) ? (-1) : ((a) != 0))",
     ORDERED |-> "((((a) <= (b)) && ((b) <= (c))) || (((c) <= (b)) && ((b) <= (a))))",
     A2I |-> "((X) - 'a')",
     I2A |-> "((X) + 'a')",
     D2I |-> "((X) - '0')",
     I2D |-> "((X) + '0')",
     KTRL |-> "((X)&0x1F)",
     UN_KTRL |-> "((X) + 64)",
     ESCAPE |-> "'\\033'"]

\* #undef MIN / #define MIN ... #define ESCAPE
DefineMacroSet(s) ==
    [n \in SymNames |->
        IF n \in UndefMacros \cup PlainMacros THEN MacroText[n] ELSE s[n]]

\* #ifdef __GNUC__ / #define FALLTHROUGH __attribute__((fallthrough)) / #else
SelectFallthrough(s) ==
    IF Defined(s, "__GNUC__")
    THEN Define(s, "FALLTHROUGH", "__attribute__((fallthrough))")
    ELSE Define(s, "FALLTHROUGH", Empty)

\* one group of directives that only rewrites num
NumStep(here, next, t) ==
    /\ pc = here
    /\ ~failed
    /\ num' = t
    /\ pc' = next
    /\ UNCHANGED <<sym, headers, failed, seen, again, reincludes, entrySym,
                   num0, utilVars>>

EnterDefine ==
    Enter("h-define.h", "INCLUDED_H_DEFINE_H", "def_null", "def_endif")

DefineNull == SymStep("def_null", FallbackOrder[1], DefineNullIfAbsent(sym))

\* the six #ifndef/#define groups, one at a time, in file order
DefineFallback ==
    \E i \in 1..Len(FallbackOrder) :
        NumStep(FallbackOrder[i],
                IF i < Len(FallbackOrder) THEN FallbackOrder[i + 1]
                                          ELSE "def_bool",
                ResolveFallback(num, FallbackOrder[i]))

DefineBool == NumStep("def_bool", "def_macros", ForceBooleans(num))

DefineMacros == SymStep("def_macros", "def_fallthrough", DefineMacroSet(sym))

DefineFallthrough ==
    SymStep("def_fallthrough", "def_endif", SelectFallthrough(sym))

LeaveDefine == Leave("def_endif")

DefineBody == {"def_null", "def_bool", "def_macros", "def_fallthrough"}
              \cup Fallbacks

\* ------------------------------------------------------- utility macros

KtrlMask == 31
UnKtrlOffset == 64

\* C's & on non-negative operands, bit by bit
RECURSIVE BitAnd(_, _)
BitAnd(x, y) ==
    IF x = 0 \/ y = 0
    THEN 0
    ELSE (x % 2) * (y % 2) + 2 * BitAnd(x \div 2, y \div 2)

\* the int value of a C comparison or logical expression
Truth(b) == IF b THEN 1 ELSE 0

ORDEREDStrict(a, b, c) == Truth(((a < b) /\ (b < c)) \/ ((c < b) /\ (b < a)))

ORDERED(a, b, c) == Truth(((a <= b) /\ (b <= c)) \/ ((c <= b) /\ (b <= a)))

KTRLNarrow(X) == BitAnd(X, 15)

KTRL(X) == BitAnd(X, KtrlMask)

UN_KTRL(X) == X + UnKtrlOffset

ExpandOrdered ==
    /\ op' = "ORDERED"
    /\ res' = ORDERED(abc[1], abc[2], abc[3])
    /\ UNCHANGED <<abc, ch, buildVars>>

ExpandKtrl ==
    /\ op' = "KTRL"
    /\ res' = KTRL(ch)
    /\ UNCHANGED <<abc, ch, buildVars>>

ExpandUnKtrl ==
    /\ op = "KTRL"
    /\ op' = "UN_KTRL"
    /\ res' = UN_KTRL(res)
    /\ UNCHANGED <<abc, ch, buildVars>>

\* ---------------------------------------------------------- specifications

\* the symbol table the compiler and the command line hand to the unit
SymOf(sig) ==
    [n \in SymNames |-> IF n \in InputSignals /\ sig[n] THEN One ELSE Undef]

\* the platform's headers provide none, one group or all of the constants
GroupPresets ==
    {[n \in NumNames |-> IF n \in S THEN <<v>> ELSE <<>>] :
        S \in {{}, SeekNames, LockNames, Fallbacks}, v \in PresetValues}

\* every constant independently absent or already defined with some value
FreePresets ==
    {[n \in NumNames |-> IF n \in Fallbacks THEN f[n] ELSE <<>>] :
        f \in [Fallbacks -> {<<>>} \cup {<<v>> : v \in PresetValues}]}

InitBuild(sigs, presets) ==
    /\ sym \in {SymOf(sig) : sig \in sigs}
    /\ num \in presets
    /\ headers = {}
    /\ failed = FALSE
    /\ pc = "idle"
    /\ seen = {}
    /\ again = FALSE
    /\ reincludes = 0
    /\ entrySym = sym
    /\ num0 = num

NoExpansion ==
    /\ op = "none"
    /\ abc = <<0, 0, 0>>
    /\ ch = 0
    /\ res = 0

Init ==
    /\ InitBuild([InputSignals -> BOOLEAN], GroupPresets)
    /\ NoExpansion

Next ==
    \/ EnterConfig
    \/ ConfigWindows
    \/ ConfigSetUid
    \/ ConfigPathSep
    \/ ConfigFileType
    \/ ConfigUsleep
    \/ LeaveConfig
    \/ EnterDefine
    \/ DefineNull
    \/ DefineFallback
    \/ DefineBool
    \/ DefineMacros
    \/ DefineFallthrough
    \/ LeaveDefine
    \/ EnterSystem
    \/ SystemBasic
    \/ SystemTypes
    \/ SystemTime
    \/ SystemPosix
    \/ SystemDemoteWindows
    \/ SystemDemoteSetUid
    \/ SystemStat
    \/ SystemString
    \/ LeaveSystem

Spec == Init /\ [][Next]_vars

\* a unit that includes only h-define.h, over every preset of the constants
InitDefine ==
    /\ InitBuild({sig \in [InputSignals -> BOOLEAN] :
                     \A n \in InputSignals \ {"__GNUC__"} : ~sig[n]},
                 FreePresets)
    /\ NoExpansion

NextDefine ==
    \/ EnterDefine
    \/ DefineNull
    \/ DefineFallback
    \/ DefineBool
    \/ DefineMacros
    \/ DefineFallthrough
    \/ LeaveDefine

SpecDefine == InitDefine /\ [][NextDefine]_vars

\* expansions of the utility macros over bounded operands
InitUtil ==
    /\ InitBuild({[n \in InputSignals |-> FALSE]}, {[n \in NumNames |-> <<>>]})
    /\ op = "none"
    /\ abc \in IntRange \X IntRange \X IntRange
    /\ ch \in Chars
    /\ res = 0

NextUtil ==
    \/ ExpandOrdered
    \/ ExpandKtrl
    \/ ExpandUnKtrl

SpecUtil == InitUtil /\ [][NextUtil]_vars

\* ------------------------------------------------------------------ claims

\* every directive of h-config.h has been processed
ConfigDone == "h-config.h" \in seen /\ pc \notin ConfigBody

\* h-system.h was entered with SET_UID defined under the Microsoft compiler
DemotionCase ==
    Defined(entrySym, "SET_UID") /\ Defined(entrySym, "_MSC_VER")

\* C1: from the end of h-config.h to the end of the build, PATH_SEP is the
\* backslash string exactly when WINDOWS is defined and the slash string
\* exactly when WINDOWS is not defined.
C1_PathSepTracksWindows ==
    ConfigDone =>
        /\ (sym["PATH_SEP"] = "\\") <=> Defined(sym, "WINDOWS")
        /\ (sym["PATH_SEP"] = "/") <=> ~Defined(sym, "WINDOWS")

\* C2: at the end of each unit (after h-config.h, and again after
\* h-system.h) SET_UID is defined if and only if WINDOWS is not defined.
C2_SetUidIffNotWindows ==
    (ConfigDone /\ pc \notin SystemBody) =>
        (Defined(sym, "SET_UID") <=> ~Defined(sym, "WINDOWS"))

\* C2 witness: h-system.h has just demoted a unit that h-config.h had
\* classified as multi-user.
C2_Witness ==
    /\ pc = "sys_endif"
    /\ ~again
    /\ ConfigDone
    /\ DemotionCase
    /\ Defined(sym, "WINDOWS")
    /\ ~Defined(sym, "SET_UID")

\* C3: from the end of h-config.h to the end of the build, HAVE_USLEEP is
\* not defined whenever SET_UID is not defined, and it is defined only when
\* SET_UID is defined and HAVE_CONFIG_H is absent.
C3_UsleepOnlyWithSetUid ==
    ConfigDone =>
        /\ ~Defined(sym, "SET_UID") => ~Defined(sym, "HAVE_USLEEP")
        /\ Defined(sym, "HAVE_USLEEP") =>
               (Defined(sym, "SET_UID") /\ ~Defined(sym, "HAVE_CONFIG_H"))

Resolved == {"WINDOWS", "SET_UID", "PATH_SEP", "HAVE_USLEEP"}

\* C4 as stated: once h-config.h has resolved WINDOWS, SET_UID, PATH_SEP
\* and HAVE_USLEEP, no later step of the build changes any of them.
C4_ResolvedNeverChange ==
    [][ConfigDone => \A n \in Resolved : sym'[n] = sym[n]]_vars

\* C4 as amended: after h-config.h, PATH_SEP and HAVE_USLEEP never change;
\* WINDOWS and SET_UID change only while h-system.h is processed with
\* SET_UID and _MSC_VER defined, WINDOWS only from undefined to defined and
\* SET_UID only from defined to undefined.
C4_OnlyDemotionChanges ==
    [][ConfigDone =>
        /\ sym'["PATH_SEP"] = sym["PATH_SEP"]
        /\ sym'["HAVE_USLEEP"] = sym["HAVE_USLEEP"]
        /\ sym'["WINDOWS"] # sym["WINDOWS"] =>
               /\ pc \in SystemBody /\ DemotionCase
               /\ ~Defined(sym, "WINDOWS") /\ Defined(sym', "WINDOWS")
        /\ sym'["SET_UID"] # sym["SET_UID"] =>
               /\ pc \in SystemBody /\ DemotionCase
               /\ Defined(sym, "SET_UID") /\ ~Defined(sym', "SET_UID")
      ]_vars

\* C4 witness: the build is over, h-system.h has changed WINDOWS and SET_UID
\* after h-config.h resolved them, and PATH_SEP and HAVE_USLEEP are as
\* h-config.h left them.
C4_Witness ==
    /\ pc = "idle"
    /\ seen = Files
    /\ DemotionCase
    /\ ~Defined(entrySym, "WINDOWS") /\ Defined(sym, "WINDOWS")
    /\ ~Defined(sym, "SET_UID")
    /\ sym["PATH_SEP"] = "/"
    /\ Defined(sym, "HAVE_USLEEP")

\* the documented values of the six fallback constants
Documented ==
    [SEEK_SET |-> 0, SEEK_CUR |-> 1, SEEK_END |-> 2,
     F_UNLCK |-> 0, F_RDLCK |-> 1, F_WRLCK |-> 2]

\* how many of the six groups of h-define.h have been processed
GroupsProcessed ==
    IF pc \in Fallbacks
    THEN (CHOOSE j \in 1..Len(FallbackOrder) : FallbackOrder[j] = pc) - 1
    ELSE IF pc = "def_null" \/ "h-define.h" \notin seen
         THEN 0
         ELSE Len(FallbackOrder)

\* C5: each fallback constant, once its group is processed, has the value
\* the environment gave it if it had one (whatever it is) and its
\* documented default otherwise; until then it is as the environment left
\* it, so resolving one constant never changes another.
C5_FallbackResolution ==
    \A i \in 1..Len(FallbackOrder) :
        LET n == FallbackOrder[i]
        IN  IF i <= GroupsProcessed
            THEN num[n] = IF num0[n] # <<>> THEN num0[n]
                                           ELSE <<Documented[n]>>
            ELSE num[n] = num0[n]

\* C5 witness: h-define.h is through; a constant the environment defined
\* with a value other than the default kept it, one it left out got the
\* default.
C5_Witness ==
    /\ pc = "def_endif"
    /\ ~again
    /\ num0["SEEK_END"] = <<0>> /\ num["SEEK_END"] = <<0>>
    /\ num0["F_RDLCK"] = <<>> /\ num["F_RDLCK"] = <<1>>

\* C6: processing a header of the layer again changes no macro of the
\* symbol table, whoever defined it first.
C6_ReprocessingChangesNothing ==
    [][(again \/ again') => (sym' = sym /\ num' = num)]_vars

\* C6 witness: h-define.h is being processed a second time; the first time
\* one constant came from the platform and another from the defaults.
C6_Witness ==
    /\ again
    /\ pc = "def_endif"
    /\ num0["SEEK_SET"] = <<2>> /\ num["SEEK_SET"] = <<2>>
    /\ num0["F_UNLCK"] = <<>> /\ num["F_UNLCK"] = <<0>>

\* C7: after the classifier step of h-config.h, WINDOWS is defined iff
\* _WIN32, WIN32 or WINDOWS was defined on entry; a WINDOWS defined on
\* entry keeps its replacement text; and the build has not failed.
C7_ClassifierPolicy ==
    (pc = "cfg_setuid" /\ ~again) =>
        /\ Defined(sym, "WINDOWS") <=>
               \/ Defined(entrySym, "_WIN32")
               \/ Defined(entrySym, "WIN32")
               \/ Defined(entrySym, "WINDOWS")
        /\ Defined(entrySym, "WINDOWS") =>
               sym["WINDOWS"] = entrySym["WINDOWS"]
        /\ ~failed

\* C7 witness: the classifier has run with both a compiler signal and a
\* command-line WINDOWS present, and the latter is untouched.
C7_Witness ==
    /\ pc = "cfg_setuid"
    /\ Defined(entrySym, "_WIN32")
    /\ entrySym["WINDOWS"] = One
    /\ sym["WINDOWS"] = One

\* C8: the build never fails on a missing POSIX header.  At the end of
\* h-system.h: entered with SET_UID and _MSC_VER defined, WINDOWS is defined,
\* SET_UID is not and no POSIX header was included; entered with SET_UID and
\* without _MSC_VER, the POSIX headers were included and both flags are as
\* on entry; entered without SET_UID, both flags are as on entry.
C8_DemotionInsteadOfFailure ==
    /\ ~failed
    /\ (pc = "sys_endif" /\ ~again) =>
        LET su == Defined(entrySym, "SET_UID")
            msc == Defined(entrySym, "_MSC_VER")
            same == /\ sym["WINDOWS"] = entrySym["WINDOWS"]
                    /\ sym["SET_UID"] = entrySym["SET_UID"]
        IN  /\ (su /\ msc) =>
                   /\ Defined(sym, "WINDOWS")
                   /\ ~Defined(sym, "SET_UID")
                   /\ headers \cap PosixHeaders = {}
            /\ (su /\ ~msc) => (PosixHeaders \subseteq headers /\ same)
            /\ ~su => same

\* C8 witness: h-system.h ends after the demotion.
C8_Witness ==
    /\ pc = "sys_endif"
    /\ ~again
    /\ DemotionCase
    /\ ~Defined(entrySym, "WINDOWS")
    /\ Defined(sym, "WINDOWS")
    /\ ~Defined(sym, "SET_UID")
    /\ headers \cap PosixHeaders = {}
    /\ "sys/stat.h" \in headers
    /\ ~failed

\* the characters '@' .. '_' whose control codes are ^@ .. ^_
ControlRange == 64..95

\* C9: over the character codes 0..MaxChar, UN_KTRL(KTRL(c)) = c holds for
\* every c of the control range '@'..'_' (and for no other c).
C9_ControlRoundTrip ==
    op = "UN_KTRL" => ((res = ch) <=> (ch \in ControlRange))

\* C9 witness: 'A' has gone through KTRL and UN_KTRL and come back.
C9_Witness == op = "UN_KTRL" /\ ch = 65 /\ res = 65

\* C10: ORDERED(a, b, c) is 1 iff b lies between a and c inclusive, in either
\* direction, and 0 otherwise; it is symmetric in a and c, and 1 whenever b
\* equals a or c.
C10_OrderedIsBetween ==
    op = "ORDERED" =>
        LET a == abc[1]
            b == abc[2]
            c == abc[3]
            lo == IF a < c THEN a ELSE c
            hi == IF a < c THEN c ELSE a
        IN  /\ res \in {0, 1}
            /\ (res = 1) <=> (lo <= b /\ b <= hi)
            /\ res = ORDERED(c, b, a)
            /\ (b = a \/ b = c) => res = 1

\* C10 witness: ORDERED(3, 2, 1) has been expanded and is true.
C10_Witness == op = "ORDERED" /\ abc = <<3, 2, 1>> /\ res = 1

====
